---- MODULE Spec2Model ----
(***************************************************************************)
(* The byte-range locking protocol of src/src/os_win.c: sqlite3OsLock,     *)
(* sqlite3OsUnlock, sqlite3OsCheckWriteLock and sqlite3OsClose, run by     *)
(* several processes that each hold one OsFile on the same database file,  *)
(* over the lock manager of the Windows host (LockFile, LockFileEx,        *)
(* UnlockFile, CloseHandle).                                               *)
(*                                                                         *)
(* Granularity.  Every host call that can fail or that takes a lock is one *)
(* step of its process, together with the local computation that follows   *)
(* it up to the next such call; processes interleave between steps.        *)
(* sqlite3OsUnlock and sqlite3OsClose issue only releases of the caller's  *)
(* own locks whose results they ignore, and are one step each.             *)
(*                                                                         *)
(* The process-wide mutex of the same file, sqlite3OsEnterMutex and         *)
(* sqlite3OsLeaveMutex built with SQLITE_W32_THREADS, is modelled for the   *)
(* threads of one process under MutexSpec; every read or write of a static  *)
(* variable and every host call is one step of its thread.                  *)
(***************************************************************************)
EXTENDS Integers, FiniteSets, Bags, TLC

\* ---------------------------------------------------------------- bounds
NumDesc == 2        \* processes, each with one OsFile open on the file
SHARED_SIZE == 3    \* bytes in the shared pool (10238 in the source)
MaxHold == 2        \* copies of one reader lock a handle may accumulate

Desc == 1..NumDesc

NumThreads == 3     \* threads of the process that uses the mutex
MaxIncrements == 5  \* cap on the value InterlockedIncrement brings lock to

Threads == 1..NumThreads

\* ---------------------------------------------------------- lock levels
NO_LOCK == 0
SHARED_LOCK == 1
RESERVED_LOCK == 2
PENDING_LOCK == 3
EXCLUSIVE_LOCK == 4

Levels == NO_LOCK..EXCLUSIVE_LOCK
Targets == SHARED_LOCK..EXCLUSIVE_LOCK

\* ------------------------------------------------------ lock byte layout
\* OffsetTop stands for 0xffffffff, scaled so that PENDING_BYTE is offset 0.
OffsetTop == SHARED_SIZE + 1
SHARED_FIRST == OffsetTop - SHARED_SIZE + 1
RESERVED_BYTE == SHARED_FIRST - 1
PENDING_BYTE == RESERVED_BYTE - 1

\* Values sqlite3Randomness may store in the int lk, and the byte they select.
RandomInts == {-2, -1, 0, 1}
\* lk & 0x7fffffff on a two's complement int: the sign bit is cleared.
IntMax == 2147483647
Mask31(lk) == IF lk >= 0 THEN lk ELSE (lk + IntMax) + 1
SharedByteOf(lk) == Mask31(lk) % (SHARED_SIZE - 1)
SharedBytes == {SharedByteOf(lk) : lk \in RandomInts}

VARIABLES
  open,            \* open[d]: the handle of d has not been closed
  hostNT,          \* hostNT[d]: d's host reports VER_PLATFORM_WIN32_NT
  osType,          \* osType[d]: the static cache of isNT in d's process
  locktype,        \* id->locktype
  sharedLockByte,  \* id->sharedLockByte
  locks,           \* the host's table of byte-range locks on the file (a bag)
  pc,              \* position of d inside sqlite3OsLock / CheckWriteLock
  target,          \* the locktype argument of d's current lock call
  res,             \* the local res of sqlite3OsLock
  cnt,             \* the local cnt of the PENDING retry loop
  \* History, read by the properties only:
  ev,              \* the call that returned in the last step, if one did
  stepFail,        \* a host lock step of d's current lock call has failed
  chkHeld,         \* RESERVED or higher was held when d's probe was made
  used,            \* d has called lock or check at least once
  mono,            \* while only d was used, for lock calls of non-decreasing
                   \* target: the last target; otherwise -1
  seq,             \* while only d was used: "unlocked" after unlock, "relock"
                   \* in the lock call that follows it
  promo,           \* "try" in a promotion from RESERVED or PENDING, "busy"
                   \* once it has failed against a reader, "retry" in its retry
  quiet,           \* in a retry: no other handle held a lock at any step
  gate,            \* in a lock call: another descriptor has been at PENDING
                   \* ever since the call was made
  coex             \* the descriptors that, since the file last had no lock
                   \* and everyone was at NONE, have called lock(SHARED) at
                   \* NONE one after another, when nothing else was called

VARIABLES
  tpc,             \* tpc[t]: position of thread t in EnterMutex / LeaveMutex
  isInit,          \* static int isInit of sqlite3OsEnterMutex
  lock,            \* static long lock of sqlite3OsEnterMutex
  inMutex,         \* static int inMutex
  csInits,         \* times InitializeCriticalSection(&cs) has completed
  csOwner,         \* the thread that owns cs, or 0
  asserted         \* an assert has failed

vars == <<open, hostNT, osType, locktype, sharedLockByte, locks, pc, target,
          res, cnt, ev, stepFail, chkHeld, used, mono, seq, promo, quiet,
          gate, coex, tpc, isInit, lock, inMutex, csInits, csOwner, asserted>>

fileVars == <<open, hostNT, osType, locktype, sharedLockByte, locks, pc, target,
              res, cnt, ev, stepFail, chkHeld, used, mono, seq, promo, quiet,
              gate, coex>>

mutexVars == <<tpc, isInit, lock, inMutex, csInits, csOwner, asserted>>

\* ------------------------------------------------------ host lock manager
Lk(h, off, n, ex) == [h |-> h, off |-> off, n |-> n, ex |-> ex]

Overlaps(l, off, n) == l.off < off + n /\ off < l.off + l.n

HeldBy(L, h) == {l \in BagToSet(L) : l.h = h}

\* LockFile: an exclusive lock; it cannot overlap any locked region, the
\* caller's own included.
HostLockFile(L, h, off, n) ==
  LET ok == \A l \in BagToSet(L) : ~Overlaps(l, off, n)
  IN  [ok |-> ok, L |-> IF ok THEN L (+) SetToBag({Lk(h, off, n, TRUE)}) ELSE L]

\* LockFileEx with LOCKFILE_FAIL_IMMEDIATELY and no LOCKFILE_EXCLUSIVE_LOCK: a
\* shared lock; it may overlap shared locks and the caller's own exclusive ones.
HostLockFileEx(L, h, off, n) ==
  LET ok == \A l \in BagToSet(L) : Overlaps(l, off, n) => (~l.ex \/ l.h = h)
  IN  [ok |-> ok, L |-> IF ok THEN L (+) SetToBag({Lk(h, off, n, FALSE)}) ELSE L]

\* UnlockFile: releases one lock of the handle on exactly this region (the
\* exclusive one first); fails when the handle holds none.
HostUnlockFile(L, h, off, n) ==
  IF BagIn(Lk(h, off, n, TRUE), L)
    THEN [ok |-> TRUE, L |-> L (-) SetToBag({Lk(h, off, n, TRUE)})]
  ELSE IF BagIn(Lk(h, off, n, FALSE), L)
    THEN [ok |-> TRUE, L |-> L (-) SetToBag({Lk(h, off, n, FALSE)})]
  ELSE [ok |-> FALSE, L |-> L]

\* CloseHandle: the host drops every lock of the handle.
HostCloseHandle(L, h) ==
  LET keep == {l \in BagToSet(L) : l.h # h}
  IN  [l \in keep |-> L[l]]

Copies(L, h, off, n) == CopiesIn(Lk(h, off, n, FALSE), L)

\* --------------------------------------------------------------- isNT
\* A variant of lines 366-371 that does not keep the answer of the query.
OsTypeNotKept(d) == osType[d]

OsTypeAfter(d) == IF osType[d] = 0 THEN (IF hostNT[d] THEN 2 ELSE 1) ELSE osType[d]
isNT(d) == OsTypeAfter(d) = 2

\* ----------------------------------------------------------- getReadLock
getReadLock(L, d, iByte, nByte) ==
  IF isNT(d) THEN HostLockFileEx(L, d, iByte, nByte)
             ELSE HostLockFile(L, d, iByte, nByte)

\* --------------------------------------------------------- unlockReadLock
unlockReadLock(L, d) ==
  IF isNT(d) THEN HostUnlockFile(L, d, SHARED_FIRST, SHARED_SIZE)
             ELSE HostUnlockFile(L, d, SHARED_FIRST + sharedLockByte[d], 1)

\* ------------------------------------------- sqlite3OsLock: control flow
\* A variant of line 432 with one more try.
PendingTriesOneMore == 2 + 3

\* line 432: int cnt = 4
PendingTries == 4

\* A variant of the test of line 423 that is strict.
AlreadyHeldStrictly(cur, tgt) == cur > tgt

\* line 423: a lock of this type or a more restrictive one is already held
AlreadyHeld(cur, tgt) == cur >= tgt

\* A variant of the test of line 431 without its second disjunct.
NeedsPendingFromNoneOnly(cur, tgt) == cur = NO_LOCK

\* line 431: the PENDING byte is locked first
NeedsPending(cur, tgt) == cur = NO_LOCK \/ tgt = PENDING_LOCK

\* line 443: a reader lock is acquired in the pool
NeedsShared(cur, tgt, r) == tgt >= SHARED_LOCK /\ cur < SHARED_LOCK /\ r

\* A variant of the test of line 452 that never releases the PENDING byte.
DropsPendingNever(tgt) == FALSE

\* line 452: the PENDING byte is released after the reader lock attempt
DropsPending(tgt) == tgt < PENDING_LOCK

\* line 459: the RESERVED byte is locked
NeedsReserved(cur, tgt, r) == tgt >= RESERVED_LOCK /\ cur < RESERVED_LOCK /\ r

\* line 466: the reader lock is released before the pool is locked
ReleasesReadLock(cur) == cur >= SHARED_LOCK

\* A variant of lines 479-480 that stores the new level without testing res.
NewLocktypeUntested(cur, tgt, r) == tgt

\* lines 479-485: the new id->locktype and the return code
NewLocktype(cur, tgt, r) == IF r THEN tgt ELSE cur
ReturnCode(r) == IF r THEN "OK" ELSE "BUSY"

\* A variant of line 470 that takes the pool the way a reader lock is taken.
LockPoolAsReader(L, d) == getReadLock(L, d, SHARED_FIRST, SHARED_SIZE)

\* line 470: LockFile on the whole pool
LockPool(L, d) == HostLockFile(L, d, SHARED_FIRST, SHARED_SIZE)

\* Where control goes from the test of line 465, 459 or 443 when res = r:
\* the next host call, or "update" (line 479).
AtExclusive(cur, tgt, r) ==
  IF tgt = EXCLUSIVE_LOCK
    THEN IF ReleasesReadLock(cur) THEN "exUnlock"
         ELSE IF r THEN "exLock" ELSE "update"
    ELSE "update"

AtReserved(cur, tgt, r) ==
  IF NeedsReserved(cur, tgt, r) THEN "reserved" ELSE AtExclusive(cur, tgt, r)

AtShared(cur, tgt, r) ==
  IF NeedsShared(cur, tgt, r) THEN "shared" ELSE AtReserved(cur, tgt, r)

OthersHoldNothing(d) == \A l \in BagToSet(locks) : l.h = d

Solo(d) == \A e \in Desc \ {d} : ~used[e]

\* quiet after a step of d
QuietAfter(d) == quiet[d] /\ (promo[d] = "retry" => OthersHoldNothing(d))

\* The reader lock that SHARED implies for e.
ReadLockOf(e) ==
  IF hostNT[e] THEN Lk(e, SHARED_FIRST, SHARED_SIZE, FALSE)
               ELSE Lk(e, SHARED_FIRST + sharedLockByte[e], 1, TRUE)

\* The reserved-byte lock that RESERVED implies for e.
ReservedLockOf(e) == Lk(e, RESERVED_BYTE, 1, ~hostNT[e])

\* The locks the level lt accounts for: the reader lock or, at EXCLUSIVE, the
\* lock on the whole pool; RESERVED_BYTE from RESERVED; PENDING_BYTE from PENDING.
MayHold(d, lt) ==
  (IF lt = EXCLUSIVE_LOCK THEN {Lk(d, SHARED_FIRST, SHARED_SIZE, TRUE)}
   ELSE IF lt >= SHARED_LOCK THEN {ReadLockOf(d)} ELSE {})
  \cup (IF lt >= RESERVED_LOCK THEN {ReservedLockOf(d)} ELSE {})
  \cup (IF lt >= PENDING_LOCK THEN {Lk(d, PENDING_BYTE, 1, TRUE)} ELSE {})

\* d holds nothing beyond what its level accounts for, and its pool lock.
Clean(d) ==
  /\ \A l \in HeldBy(locks, d) : l \in MayHold(d, locktype[d]) /\ locks[l] = 1
  /\ locktype[d] >= SHARED_LOCK =>
        \E l \in HeldBy(locks, d) : l.off >= SHARED_FIRST

ReaderPresent(d) ==
  \E e \in Desc \ {d} :
     open[e] /\ locktype[e] = SHARED_LOCK /\ BagIn(ReadLockOf(e), locks)

\* ------------------------------------------------------------- history
\* Some open descriptor other than d and a has locktype PENDING.
PendingBeside(d, a) ==
  \E e \in Desc \ {d, a} : open[e] /\ locktype[e] = PENDING_LOCK

\* No call is in progress.
AllIdle == \A e \in Desc : pc[e] = "idle"

\* coex after d calls lock(t)
CoexAfter(d, t) ==
  IF t = SHARED_LOCK /\ locktype[d] = NO_LOCK /\ AllIdle
    THEN IF coex # {} /\ d \notin coex THEN coex \cup {d}
         ELSE IF locks = EmptyBag
                 /\ \A e \in Desc : open[e] => locktype[e] = NO_LOCK
           THEN {d}
         ELSE {}
    ELSE {}

\* gate after a leaves PENDING by unlock or close
GateWithout(a) == [e \in Desc |-> gate[e] /\ PendingBeside(e, a)]

NoEvent ==
  [op |-> "none", d |-> 0, tgt |-> NO_LOCK, from |-> NO_LOCK, rc |-> "none",
   fail |-> FALSE, retry |-> FALSE, quiet |-> FALSE, ret |-> FALSE,
   held |-> FALSE, clean |-> FALSE, gated |-> FALSE]

LockEvent(d, t, result, failed) ==
  [NoEvent EXCEPT !.op = "lock", !.d = d, !.tgt = t, !.from = locktype[d],
                  !.rc = result, !.fail = failed,
                  !.retry = (promo[d] = "retry"), !.quiet = QuietAfter(d),
                  !.gated = gate[d]]

CheckEvent(d, value, heldThen) ==
  [NoEvent EXCEPT !.op = "check", !.d = d, !.from = locktype[d],
                  !.ret = value, !.held = heldThen]

UnlockEvent(d) ==
  [NoEvent EXCEPT !.op = "unlock", !.d = d, !.from = locktype[d],
                  !.clean = Clean(d)]

\* d continues at `next` with res = r, after a step that made stepFail
\* `failed`; at "update" the call returns.
Goto(d, next, r, failed) ==
  IF next = "update"
    THEN /\ pc' = [pc EXCEPT ![d] = "idle"]
         /\ locktype' = [locktype EXCEPT ![d] = NewLocktype(locktype[d], target[d], r)]
         /\ ev' = LockEvent(d, target[d], ReturnCode(r), failed)
         /\ res' = [res EXCEPT ![d] = TRUE]
         /\ target' = [target EXCEPT ![d] = NO_LOCK]
         /\ stepFail' = [stepFail EXCEPT ![d] = FALSE]
         /\ quiet' = [quiet EXCEPT ![d] = TRUE]
         /\ gate' = [gate EXCEPT ![d] = FALSE]
         /\ promo' = [promo EXCEPT ![d] =
               IF promo[d] = "try" /\ ~r /\ ReaderPresent(d)
                 THEN "busy" ELSE "none"]
    ELSE /\ pc' = [pc EXCEPT ![d] = next]
         /\ res' = [res EXCEPT ![d] = r]
         /\ ev' = NoEvent
         /\ stepFail' = [stepFail EXCEPT ![d] = failed]
         /\ quiet' = [quiet EXCEPT ![d] = QuietAfter(d)]
         /\ UNCHANGED <<locktype, target, promo, gate>>

\* ------------------------------------------------ sqlite3OsLock: the steps
\* lines 413-432: entry, the no-op test, and the choice of the first call
StartLock(d, t) ==
  /\ open[d] /\ pc[d] = "idle"
  /\ UNCHANGED mutexVars
  /\ used' = [used EXCEPT ![d] = TRUE]
  /\ mono' = [e \in Desc |->
        IF e = d /\ mono[d] >= 0 /\ t >= mono[d] /\ Solo(d) THEN t ELSE -1]
  /\ seq' = [e \in Desc |->
        IF e = d /\ seq[d] = "unlocked" /\ Solo(d) THEN "relock" ELSE "other"]
  /\ coex' = CoexAfter(d, t)
  /\ IF AlreadyHeld(locktype[d], t)
       THEN /\ ev' = LockEvent(d, t, "OK", FALSE)
            /\ promo' = [promo EXCEPT ![d] = "none"]
            /\ UNCHANGED <<pc, cnt, target, gate>>
       ELSE /\ ev' = NoEvent
            /\ target' = [target EXCEPT ![d] = t]
            /\ gate' = [gate EXCEPT ![d] = PendingBeside(d, d)]
            /\ promo' = [promo EXCEPT ![d] =
                  IF t # EXCLUSIVE_LOCK THEN "none"
                  ELSE IF promo[d] = "busy" THEN "retry"
                  ELSE IF locktype[d] >= RESERVED_LOCK /\ Clean(d) THEN "try"
                  ELSE "none"]
            /\ IF NeedsPending(locktype[d], t)
                 THEN /\ pc' = [pc EXCEPT ![d] = "pending"]
                      /\ cnt' = [cnt EXCEPT ![d] = PendingTries]
                 ELSE /\ pc' = [pc EXCEPT ![d] = AtShared(locktype[d], t, TRUE)]
                      /\ UNCHANGED cnt
  /\ UNCHANGED <<open, hostNT, osType, locktype, sharedLockByte, locks, res,
                 stepFail, chkHeld, quiet>>

\* lines 433-438: one pass of the retry loop on PENDING_BYTE
PendingStep(d) ==
  /\ pc[d] = "pending"
  /\ UNCHANGED mutexVars
  /\ LET r == HostLockFile(locks, d, PENDING_BYTE, 1)
         last == cnt[d] - 1 = 0
     IN  /\ locks' = r.L
         /\ IF r.ok \/ last
              THEN /\ cnt' = [cnt EXCEPT ![d] = 0]
                   /\ Goto(d, AtShared(locktype[d], target[d], r.ok), r.ok, ~r.ok)
              ELSE /\ cnt' = [cnt EXCEPT ![d] = cnt[d] - 1]
                   /\ ev' = NoEvent
                   /\ quiet' = [quiet EXCEPT ![d] = QuietAfter(d)]
                   /\ UNCHANGED <<stepFail, pc, res, locktype, target, promo,
                                   gate>>
  /\ UNCHANGED <<open, hostNT, osType, sharedLockByte, chkHeld, used, mono, seq,
                 coex>>

\* lines 444-451: the reader lock in the pool
SharedStep(d) ==
  /\ pc[d] = "shared"
  /\ UNCHANGED mutexVars
  /\ osType' = [osType EXCEPT ![d] = OsTypeAfter(d)]
  /\ \E lk \in RandomInts :
       LET byte == SharedByteOf(lk)
           r == IF isNT(d)
                  THEN getReadLock(locks, d, SHARED_FIRST, SHARED_SIZE)
                  ELSE HostLockFile(locks, d, SHARED_FIRST + byte, 1)
       IN  /\ isNT(d) => Copies(locks, d, SHARED_FIRST, SHARED_SIZE) < MaxHold
           /\ sharedLockByte' = IF isNT(d) THEN sharedLockByte
                                ELSE [sharedLockByte EXCEPT ![d] = byte]
           /\ locks' = r.L
           /\ IF DropsPending(target[d])
                THEN Goto(d, "unpend", r.ok, stepFail[d] \/ ~r.ok)
                ELSE Goto(d, AtReserved(locktype[d], target[d], r.ok), r.ok,
                          stepFail[d] \/ ~r.ok)
  /\ UNCHANGED <<open, hostNT, cnt, chkHeld, used, mono, seq,
                 coex>>

\* line 453: the PENDING byte is released
UnpendStep(d) ==
  /\ pc[d] = "unpend"
  /\ UNCHANGED mutexVars
  /\ locks' = HostUnlockFile(locks, d, PENDING_BYTE, 1).L
  /\ Goto(d, AtReserved(locktype[d], target[d], res[d]), res[d], stepFail[d])
  /\ UNCHANGED <<open, hostNT, osType, sharedLockByte, cnt, chkHeld, used,
                 mono, seq, coex>>

\* line 460: the RESERVED byte
ReservedStep(d) ==
  /\ pc[d] = "reserved"
  /\ UNCHANGED mutexVars
  /\ isNT(d) => Copies(locks, d, RESERVED_BYTE, 1) < MaxHold
  /\ osType' = [osType EXCEPT ![d] = OsTypeAfter(d)]
  /\ LET r == getReadLock(locks, d, RESERVED_BYTE, 1)
     IN  /\ locks' = r.L
         /\ Goto(d, AtExclusive(locktype[d], target[d], r.ok), r.ok,
                 stepFail[d] \/ ~r.ok)
  /\ UNCHANGED <<open, hostNT, sharedLockByte, cnt, chkHeld, used, mono, seq,
                 coex>>

\* lines 466-468 and the test of line 469
ExUnlockStep(d) ==
  /\ pc[d] = "exUnlock"
  /\ UNCHANGED mutexVars
  /\ osType' = [osType EXCEPT ![d] = OsTypeAfter(d)]
  /\ LET r == unlockReadLock(locks, d)
     IN  /\ locks' = r.L
         /\ Goto(d, IF r.ok THEN "exLock" ELSE "update", r.ok, stepFail[d])
  /\ UNCHANGED <<open, hostNT, sharedLockByte, cnt, chkHeld, used, mono, seq,
                 coex>>

\* line 470: the exclusive lock on the whole pool
ExLockStep(d) ==
  /\ pc[d] = "exLock"
  /\ UNCHANGED mutexVars
  /\ LET r == LockPool(locks, d)
     IN  /\ locks' = r.L
         /\ Goto(d, "update", r.ok, stepFail[d] \/ ~r.ok)
  /\ UNCHANGED <<open, hostNT, osType, sharedLockByte, cnt, chkHeld, used,
                 mono, seq, coex>>

\* ---------------------------------------------------------- sqlite3OsUnlock
\* The table after the UnlockFile calls of lines 516-527 at level lt.
UnlockReleases(L, d, lt) ==
  LET L1 == IF lt >= EXCLUSIVE_LOCK
              THEN HostUnlockFile(L, d, SHARED_FIRST, SHARED_SIZE).L ELSE L
      L2 == IF lt >= PENDING_LOCK
              THEN HostUnlockFile(L1, d, PENDING_BYTE, 1).L ELSE L1
      L3 == IF lt >= RESERVED_LOCK
              THEN HostUnlockFile(L2, d, RESERVED_BYTE, 1).L ELSE L2
  IN  IF lt = SHARED_LOCK THEN unlockReadLock(L3, d).L ELSE L3

Unlock(d) ==
  /\ open[d] /\ pc[d] = "idle"
  /\ UNCHANGED mutexVars
  /\ locks' = UnlockReleases(locks, d, locktype[d])
  /\ osType' = [osType EXCEPT ![d] =
        IF locktype[d] = SHARED_LOCK THEN OsTypeAfter(d) ELSE osType[d]]
  /\ locktype' = [locktype EXCEPT ![d] = NO_LOCK]
  /\ ev' = UnlockEvent(d)
  /\ mono' = [mono EXCEPT ![d] = -1]
  /\ seq' = [seq EXCEPT ![d] = IF Solo(d) /\ Clean(d) THEN "unlocked" ELSE "other"]
  /\ promo' = [promo EXCEPT ![d] = "none"]
  /\ gate' = GateWithout(d)
  /\ coex' = {}
  /\ UNCHANGED <<open, hostNT, sharedLockByte, pc, target, res, cnt, stepFail,
                 chkHeld, used, quiet>>

\* ------------------------------------------------- sqlite3OsCheckWriteLock
\* line 504: the value returned, given the rc the routine computed
CheckWriteLockReturn(rcLocal) == FALSE

SomeoneReserved == \E e \in Desc : open[e] /\ locktype[e] >= RESERVED_LOCK

\* lines 496-500: the level test and the probe of RESERVED_BYTE
CheckWriteLock(d) ==
  /\ open[d] /\ pc[d] = "idle"
  /\ UNCHANGED mutexVars
  /\ used' = [used EXCEPT ![d] = TRUE]
  /\ mono' = [e \in Desc |-> -1]
  /\ seq' = [e \in Desc |-> "other"]
  /\ promo' = [promo EXCEPT ![d] = "none"]
  /\ coex' = {}
  /\ IF locktype[d] >= RESERVED_LOCK
       THEN /\ ev' = CheckEvent(d, CheckWriteLockReturn(TRUE), SomeoneReserved)
            /\ UNCHANGED <<locks, pc, osType, chkHeld>>
       ELSE /\ isNT(d) => Copies(locks, d, RESERVED_BYTE, 1) < MaxHold
            /\ osType' = [osType EXCEPT ![d] = OsTypeAfter(d)]
            /\ LET r == getReadLock(locks, d, RESERVED_BYTE, 1)
               IN  /\ locks' = r.L
                   /\ IF r.ok
                        THEN /\ pc' = [pc EXCEPT ![d] = "crUnlock"]
                             /\ chkHeld' = [chkHeld EXCEPT ![d] = SomeoneReserved]
                             /\ ev' = NoEvent
                        ELSE /\ ev' = CheckEvent(d, CheckWriteLockReturn(FALSE),
                                                 SomeoneReserved)
                             /\ UNCHANGED <<pc, chkHeld>>
  /\ UNCHANGED <<open, hostNT, locktype, sharedLockByte, target, res, cnt,
                 stepFail, quiet, gate>>

\* lines 501-504: the probe lock is released and the routine returns
CheckUnlockStep(d) ==
  /\ pc[d] = "crUnlock"
  /\ UNCHANGED mutexVars
  /\ locks' = HostUnlockFile(locks, d, RESERVED_BYTE, 1).L
  /\ pc' = [pc EXCEPT ![d] = "idle"]
  /\ ev' = CheckEvent(d, CheckWriteLockReturn(TRUE), chkHeld[d])
  /\ chkHeld' = [chkHeld EXCEPT ![d] = FALSE]
  /\ UNCHANGED <<open, hostNT, osType, locktype, sharedLockByte, target, res,
                 cnt, used, mono, stepFail, seq, promo, quiet, gate, coex>>

\* ----------------------------------------------------------- sqlite3OsClose
Close(d) ==
  /\ open[d] /\ pc[d] = "idle"
  /\ UNCHANGED mutexVars
  /\ open' = [open EXCEPT ![d] = FALSE]
  /\ locks' = HostCloseHandle(locks, d)
  /\ ev' = NoEvent
  /\ mono' = [mono EXCEPT ![d] = -1]
  /\ seq' = [seq EXCEPT ![d] = "other"]
  /\ promo' = [promo EXCEPT ![d] = "none"]
  /\ gate' = GateWithout(d)
  /\ coex' = {}
  /\ UNCHANGED <<hostNT, osType, locktype, sharedLockByte, pc, target, res,
                 cnt, stepFail, chkHeld, used, quiet>>

\* ------------------------------------------------------------ specification
\* After sqlite3OsOpenReadWrite in every process: locktype is NO_LOCK and the
\* isNT cache is unset.  sharedLockByte is not read before sqlite3OsLock has
\* written it, so its first value is fixed.  Processes are interchangeable, so
\* the legacy hosts are given the lower numbers.
FileInit ==
  /\ open = [d \in Desc |-> TRUE]
  /\ hostNT \in {f \in [Desc -> BOOLEAN] :
                    \A d, e \in Desc : (d < e /\ f[d]) => f[e]}
  /\ osType = [d \in Desc |-> 0]
  /\ locktype = [d \in Desc |-> NO_LOCK]
  /\ sharedLockByte = [d \in Desc |-> 0]
  /\ locks = EmptyBag
  /\ pc = [d \in Desc |-> "idle"]
  /\ target = [d \in Desc |-> NO_LOCK]
  /\ res = [d \in Desc |-> TRUE]
  /\ cnt = [d \in Desc |-> 0]
  /\ ev = NoEvent
  /\ stepFail = [d \in Desc |-> FALSE]
  /\ chkHeld = [d \in Desc |-> FALSE]
  /\ used = [d \in Desc |-> FALSE]
  /\ mono = [d \in Desc |-> NO_LOCK]
  /\ seq = [d \in Desc |-> "other"]
  /\ promo = [d \in Desc |-> "none"]
  /\ quiet = [d \in Desc |-> TRUE]
  /\ gate = [d \in Desc |-> FALSE]
  /\ coex = {}

FileNext ==
  \E d \in Desc :
    \/ \E t \in Targets : StartLock(d, t)
    \/ PendingStep(d)
    \/ SharedStep(d)
    \/ UnpendStep(d)
    \/ ReservedStep(d)
    \/ ExUnlockStep(d)
    \/ ExLockStep(d)
    \/ Unlock(d)
    \/ CheckWriteLock(d)
    \/ CheckUnlockStep(d)
    \/ Close(d)

\* ------------------------------- sqlite3OsEnterMutex, sqlite3OsLeaveMutex
\* A variant of the test of line 584 that any non-zero count passes.
FirstIncrementOrLater(n) == n >= 1

\* line 584: InterlockedIncrement(&lock)==1
FirstIncrement(n) == n = 1

\* A variant of line 591 that returns whoever owns the critical section.
CsGrantedAlways(owner) == TRUE

\* line 591: EnterCriticalSection returns once no thread owns cs
CsGranted(owner) == owner = 0

\* The calling thread enters sqlite3OsEnterMutex.
EnterMutex(t) ==
  /\ tpc[t] = "out"
  /\ UNCHANGED fileVars
  /\ tpc' = [tpc EXCEPT ![t] = "test"]
  /\ UNCHANGED <<isInit, lock, inMutex, csInits, csOwner, asserted>>

\* line 582: while( !isInit )
TestInit(t) ==
  /\ tpc[t] = "test"
  /\ UNCHANGED fileVars
  /\ tpc' = [tpc EXCEPT ![t] = IF isInit THEN "entercs" ELSE "incr"]
  /\ UNCHANGED <<isInit, lock, inMutex, csInits, csOwner, asserted>>

\* line 584: the atomic increment of lock and the test of its result
Increment(t) ==
  /\ tpc[t] = "incr"
  /\ UNCHANGED fileVars
  /\ lock < MaxIncrements
  /\ lock' = lock + 1
  /\ tpc' = [tpc EXCEPT ![t] = IF FirstIncrement(lock + 1) THEN "initcs" ELSE "sleep"]
  /\ UNCHANGED <<isInit, inMutex, csInits, csOwner, asserted>>

\* line 585: InitializeCriticalSection(&cs); cs is then owned by nobody
InitCS(t) ==
  /\ tpc[t] = "initcs"
  /\ UNCHANGED fileVars
  /\ csInits' = IF csInits < 2 THEN csInits + 1 ELSE csInits
  /\ csOwner' = 0
  /\ tpc' = [tpc EXCEPT ![t] = "setinit"]
  /\ UNCHANGED <<isInit, lock, inMutex, asserted>>

\* line 586: isInit = 1
SetInit(t) ==
  /\ tpc[t] = "setinit"
  /\ UNCHANGED fileVars
  /\ isInit' = TRUE
  /\ tpc' = [tpc EXCEPT ![t] = "test"]
  /\ UNCHANGED <<lock, inMutex, csInits, csOwner, asserted>>

\* line 588: Sleep(1)
SleepStep(t) ==
  /\ tpc[t] = "sleep"
  /\ UNCHANGED fileVars
  /\ tpc' = [tpc EXCEPT ![t] = "test"]
  /\ UNCHANGED <<isInit, lock, inMutex, csInits, csOwner, asserted>>

\* line 591: EnterCriticalSection(&cs)
EnterCS(t) ==
  /\ tpc[t] = "entercs"
  /\ UNCHANGED fileVars
  /\ CsGranted(csOwner)
  /\ csOwner' = t
  /\ tpc' = [tpc EXCEPT ![t] = "assertIn"]
  /\ UNCHANGED <<isInit, lock, inMutex, csInits, asserted>>

\* line 593: assert( !inMutex )
AssertNotInMutex(t) ==
  /\ tpc[t] = "assertIn"
  /\ UNCHANGED fileVars
  /\ asserted' = (asserted \/ inMutex)
  /\ tpc' = [tpc EXCEPT ![t] = IF inMutex THEN "abort" ELSE "setIn"]
  /\ UNCHANGED <<isInit, lock, inMutex, csInits, csOwner>>

\* line 594: inMutex = 1, and the return
SetInMutex(t) ==
  /\ tpc[t] = "setIn"
  /\ UNCHANGED fileVars
  /\ inMutex' = TRUE
  /\ tpc' = [tpc EXCEPT ![t] = "inside"]
  /\ UNCHANGED <<isInit, lock, csInits, csOwner, asserted>>

\* line 597: the call of sqlite3OsLeaveMutex and its assert( inMutex )
LeaveMutex(t) ==
  /\ tpc[t] = "inside"
  /\ UNCHANGED fileVars
  /\ asserted' = (asserted \/ ~inMutex)
  /\ tpc' = [tpc EXCEPT ![t] = IF inMutex THEN "clear" ELSE "abort"]
  /\ UNCHANGED <<isInit, lock, inMutex, csInits, csOwner>>

\* line 598: inMutex = 0
ClearInMutex(t) ==
  /\ tpc[t] = "clear"
  /\ UNCHANGED fileVars
  /\ inMutex' = FALSE
  /\ tpc' = [tpc EXCEPT ![t] = "leavecs"]
  /\ UNCHANGED <<isInit, lock, csInits, csOwner, asserted>>

\* line 600: LeaveCriticalSection(&cs), and the return
LeaveCS(t) ==
  /\ tpc[t] = "leavecs"
  /\ UNCHANGED fileVars
  /\ csOwner' = IF csOwner = t THEN 0 ELSE csOwner
  /\ tpc' = [tpc EXCEPT ![t] = "out"]
  /\ UNCHANGED <<isInit, lock, inMutex, csInits, asserted>>

\* lines 566, 581, 583: the statics as the loader leaves them
MutexInit ==
  /\ tpc = [t \in Threads |-> "out"]
  /\ isInit = FALSE
  /\ lock = 0
  /\ inMutex = FALSE
  /\ csInits = 0
  /\ csOwner = 0
  /\ asserted = FALSE

MutexNext ==
  \E t \in Threads :
    \/ EnterMutex(t)
    \/ TestInit(t)
    \/ Increment(t)
    \/ InitCS(t)
    \/ SetInit(t)
    \/ SleepStep(t)
    \/ EnterCS(t)
    \/ AssertNotInMutex(t)
    \/ SetInMutex(t)
    \/ LeaveMutex(t)
    \/ ClearInMutex(t)
    \/ LeaveCS(t)

\* ------------------------------------------------------------ specifications
Init == FileInit /\ MutexInit

\* The locking protocol; the mutex is not used by it.
Next == FileNext

Spec == Init /\ [][Next]_vars

\* The mutex, for the threads of one process.
MutexSpec == Init /\ [][MutexNext]_vars

\* ================================================================ claims

\* C1: at most one open descriptor has locktype EXCLUSIVE, in every reachable
\* state, for every mix of legacy and modern hosts and every interleaving.
AtMostOneExclusive ==
  \A d, e \in Desc :
    (open[d] /\ open[e] /\ locktype[d] = EXCLUSIVE_LOCK
       /\ locktype[e] = EXCLUSIVE_LOCK) => d = e

\* One descriptor is at EXCLUSIVE and another's lock(EXCLUSIVE) has just
\* returned BUSY.
ExclusiveContended ==
  /\ ev.op = "lock" /\ ev.tgt = EXCLUSIVE_LOCK /\ ev.rc = "BUSY"
  /\ \E d \in Desc \ {ev.d} : open[d] /\ locktype[d] = EXCLUSIVE_LOCK

\* C2: at most one descriptor has locktype RESERVED; when a descriptor at
\* SHARED calls lock(RESERVED) while another one is at RESERVED, the call
\* returns BUSY and the caller stays at SHARED.
AtMostOneReserved ==
  /\ \A d, e \in Desc :
       (open[d] /\ open[e] /\ locktype[d] = RESERVED_LOCK
          /\ locktype[e] = RESERVED_LOCK) => d = e
  /\ (/\ ev.op = "lock" /\ ev.tgt = RESERVED_LOCK /\ ev.from = SHARED_LOCK
      /\ \E a \in Desc \ {ev.d} : open[a] /\ locktype[a] = RESERVED_LOCK /\ Clean(a))
     => (ev.rc = "BUSY" /\ locktype[ev.d] = SHARED_LOCK)

\* C3: at most one open descriptor has locktype PENDING, in every reachable
\* state.
AtMostOnePending ==
  \A d, e \in Desc :
    (open[d] /\ open[e] /\ locktype[d] = PENDING_LOCK
       /\ locktype[e] = PENDING_LOCK) => d = e

\* One descriptor is at PENDING and another's lock(PENDING) has just returned
\* BUSY.
PendingContended ==
  /\ ev.op = "lock" /\ ev.tgt = PENDING_LOCK /\ ev.rc = "BUSY"
  /\ \E d \in Desc \ {ev.d} : open[d] /\ locktype[d] = PENDING_LOCK

\* C4: whenever some descriptor has locktype EXCLUSIVE, every other open
\* descriptor has locktype NONE.
ExclusiveExcludesAll ==
  \A d, e \in Desc :
    (open[d] /\ open[e] /\ d # e /\ locktype[d] = EXCLUSIVE_LOCK)
      => locktype[e] = NO_LOCK

\* C5: when only one descriptor is used, starting at NONE, for lock calls of
\* non-decreasing target, every call returns OK and leaves locktype at the
\* largest target so far.
MonotoneLocksSucceed ==
  (ev.op = "lock" /\ mono[ev.d] >= 0)
    => (ev.rc = "OK" /\ locktype[ev.d] = mono[ev.d])

\* C6: a lock call returns OK, with locktype set to the target, only if none
\* of its host lock steps failed; if one failed it returns BUSY; and BUSY
\* leaves locktype as it was.
OkOnlyIfEveryStepSucceeded ==
  (ev.op = "lock" /\ ev.from < ev.tgt)
    => /\ ev.rc = "OK" => (~ev.fail /\ locktype[ev.d] = ev.tgt)
       /\ ev.fail => ev.rc = "BUSY"
       /\ ev.rc = "BUSY" => locktype[ev.d] = ev.from

\* C7: unlock, called by a descriptor that holds what its level accounts for,
\* sets locktype to NONE and leaves the descriptor without any byte-range lock.
UnlockReleasesEverything ==
  (ev.op = "unlock" /\ ev.clean)
    => (locktype[ev.d] = NO_LOCK /\ HeldBy(locks, ev.d) = {})

\* C8: when only one descriptor is used, unlock at any level followed by
\* lock(SHARED) returns OK and leaves the descriptor at SHARED.
UnlockThenSharedSucceeds ==
  (ev.op = "lock" /\ ev.tgt = SHARED_LOCK /\ seq[ev.d] = "relock")
    => (ev.rc = "OK" /\ locktype[ev.d] = SHARED_LOCK)

\* C9: after lock(EXCLUSIVE) from RESERVED or PENDING returned BUSY against a
\* descriptor at SHARED, the retry during which no other handle holds any
\* lock returns OK and leaves the caller at EXCLUSIVE.
RetryAfterDrainSucceeds ==
  (ev.op = "lock" /\ ev.retry /\ ev.quiet)
    => (ev.rc = "OK" /\ locktype[ev.d] = EXCLUSIVE_LOCK)

\* C10: check_reserved returns true exactly when some descriptor, the caller
\* included, is at RESERVED or higher.
CheckReportsReserved ==
  ev.op = "check" => (ev.ret <=> ev.held)

\* C11: locktype never decreases except through unlock.  A lock call whose
\* target is not above the current level returns OK in its entry step, without
\* a host call, and leaves locktype and the lock table as they were; a lock
\* call that returns OK raises locktype; one that returns BUSY leaves it; and
\* a step that lowers locktype is an unlock of that descriptor and lowers it
\* to NONE.
LocktypeLoweredOnlyByUnlock ==
  [][\A d \in Desc :
       /\ locktype'[d] < locktype[d]
            => (ev'.op = "unlock" /\ ev'.d = d /\ locktype'[d] = NO_LOCK)
       /\ (ev'.op = "lock" /\ ev'.d = d)
            => /\ ev'.from >= ev'.tgt
                    => (ev'.rc = "OK" /\ pc[d] = "idle" /\ locks' = locks
                          /\ locktype' = locktype)
               /\ (ev'.from < ev'.tgt /\ ev'.rc = "OK")
                    => locktype'[d] > locktype[d]
               /\ ev'.rc = "BUSY" => locktype'[d] = locktype[d]]_vars

\* A lock call whose target was not above the level of a descriptor that holds
\* locks has returned.
LockNoOpReturned ==
  /\ ev.op = "lock" /\ ev.from >= ev.tgt /\ ev.rc = "OK"
  /\ HeldBy(locks, ev.d) # {}

\* C12: a lock(SHARED) call made at NONE, during all of which another
\* descriptor has locktype PENDING, returns BUSY and leaves the caller at NONE
\* without any lock; and while a descriptor is at PENDING the steps of the
\* other descriptors leave a descriptor at SHARED its level and reader lock.
PendingBlocksNewReaders ==
  [][/\ (ev'.op = "lock" /\ ev'.tgt = SHARED_LOCK /\ ev'.from = NO_LOCK
           /\ ev'.gated)
          => (ev'.rc = "BUSY" /\ locktype'[ev'.d] = NO_LOCK
                /\ HeldBy(locks', ev'.d) = {})
     /\ \A c \in Desc :
          (/\ open[c] /\ locktype[c] = SHARED_LOCK /\ BagIn(ReadLockOf(c), locks)
           /\ PendingBeside(c, c)
           /\ open'[c] /\ pc'[c] = pc[c] /\ ev'.d # c)
            => (locktype'[c] = SHARED_LOCK /\ BagIn(ReadLockOf(c), locks'))]_vars

\* e holds a lock inside the pool: the single byte of a legacy reader or the
\* whole-pool lock of a modern one.
HoldsPoolLock(e) == \E l \in HeldBy(locks, e) : l.off >= SHARED_FIRST

\* C13: for every mix of legacy and modern hosts, no descriptor is at
\* EXCLUSIVE while another descriptor holds a lock inside the pool, and a
\* lock(EXCLUSIVE) call that returns while another descriptor holds one
\* returns BUSY.
WriterExcludesPoolReaders ==
  /\ \A d, e \in Desc :
       (d # e /\ open[d] /\ locktype[d] = EXCLUSIVE_LOCK) => ~HoldsPoolLock(e)
  /\ (/\ ev.op = "lock" /\ ev.tgt = EXCLUSIVE_LOCK /\ ev.from < EXCLUSIVE_LOCK
      /\ \E e \in Desc \ {ev.d} : HoldsPoolLock(e))
     => ev.rc = "BUSY"

\* On hosts of different kinds: lock(EXCLUSIVE) has returned BUSY to a
\* descriptor at SHARED or above while the other one, at SHARED, holds its
\* reader lock.
MixedWriterRefused ==
  /\ ev.op = "lock" /\ ev.tgt = EXCLUSIVE_LOCK /\ ev.rc = "BUSY"
  /\ ev.from >= SHARED_LOCK
  /\ \E e \in Desc \ {ev.d} :
       /\ hostNT[e] # hostNT[ev.d]
       /\ open[e] /\ locktype[e] = SHARED_LOCK /\ BagIn(ReadLockOf(e), locks)

\* The open descriptors at SHARED.
AtSharedNow == {d \in Desc : open[d] /\ locktype[d] = SHARED_LOCK}

\* C14: when descriptors at NONE, on a file without locks, call lock(SHARED)
\* one after another, every call returns OK and all callers so far are at
\* SHARED together.
ReadersCoexist ==
  (ev.op = "lock" /\ coex # {}) => (ev.rc = "OK" /\ AtSharedNow = coex)

\* The callers are all on modern hosts, or all on legacy hosts with reader
\* bytes that differ from one another.
SameKindDistinctBytes(S) ==
  \A d, e \in S :
    /\ hostNT[d] = hostNT[e]
    /\ (d # e /\ ~hostNT[d]) => sharedLockByte[d] # sharedLockByte[e]

\* C14, amended: the same for callers that are all on modern hosts, or all on
\* legacy hosts and draw reader bytes that differ from one another.
ReadersOfOneKindCoexist ==
  (ev.op = "lock" /\ coex # {} /\ SameKindDistinctBytes(coex))
    => (ev.rc = "OK" /\ AtSharedNow = coex)

\* Every descriptor has called lock(SHARED) in such a sequence, the last call
\* has just returned, and the callers are of one kind with distinct bytes.
AllReadersIn ==
  /\ ev.op = "lock" /\ coex = Desc /\ SameKindDistinctBytes(coex)
  /\ ev.rc = "OK"

\* The positions of a thread from EnterCriticalSection on: it has left the
\* initialisation loop.
PastInit == {"entercs", "assertIn", "setIn", "inside", "clear", "leavecs"}

\* C15: the critical section is initialised at most once, and whenever a
\* thread has reached EnterCriticalSection, or is beyond it, the one
\* initialisation has completed and no thread is initialising.
InitOnceBeforeEnter ==
  /\ csInits <= 1
  /\ (\E t \in Threads : tpc[t] \in PastInit)
       => (csInits = 1 /\ \A u \in Threads : tpc[u] # "initcs")

\* Two threads that called for the first time while the critical section was
\* not initialised, one of which was told to sleep, are both at
\* EnterCriticalSection.
LatecomerWaited ==
  /\ lock >= 2
  /\ \E t, u \in Threads : t # u /\ tpc[t] = "entercs" /\ tpc[u] = "entercs"

\* t is between the store inMutex = 1 of enter and the store inMutex = 0 of leave.
InsideMutex(t) == tpc[t] \in {"inside", "clear"}

\* C16: at most one thread is between enter and leave, inMutex is 1 exactly
\* while one is, and no assert of enter or leave has failed.
MutexExcludes ==
  /\ \A t, u \in Threads : (InsideMutex(t) /\ InsideMutex(u)) => t = u
  /\ inMutex <=> \E t \in Threads : InsideMutex(t)
  /\ ~asserted

\* One thread is inside the mutex, owning the critical section, while another
\* is blocked in EnterCriticalSection.
MutexContended ==
  \E t, u \in Threads :
    tpc[t] = "inside" /\ tpc[u] = "entercs" /\ csOwner = t

\* C17: whenever lock(EXCLUSIVE) of a descriptor at SHARED, RESERVED or
\* PENDING has released the reader lock and has not yet tried the lock on
\* the whole pool, the descriptor holds the lock on PENDING_BYTE, which keeps
\* descriptors at NONE from acquiring SHARED meanwhile.
GateClosedDuringPromotion ==
  \A d \in Desc :
    (pc[d] = "exLock" /\ locktype[d] >= SHARED_LOCK)
      => BagIn(Lk(d, PENDING_BYTE, 1, TRUE), locks)

\* This step of d issues the LockFile on PENDING_BYTE of line 433.
PendingCallBy(d) ==
  pc[d] = "pending" /\ (pc'[d] # "pending" \/ cnt'[d] # cnt[d])

\* This step of d issues another host lock call: the reader lock of lines
\* 444-450, the RESERVED_BYTE lock of line 460, the pool lock of line 470 or
\* the probe of line 499.
OtherLockCallBy(d) ==
  \/ pc[d] \in {"shared", "reserved", "exLock"} /\ pc'[d] # pc[d]
  \/ /\ pc[d] = "idle" /\ locktype[d] < RESERVED_LOCK
     /\ (pc'[d] = "crUnlock" \/ (ev'.op = "check" /\ ev'.d = d))

\* C18: the version query of isNT has completed in the process of d when d
\* issues any host lock call, the LockFile on PENDING_BYTE included.
CacheWarmBeforeAnyLock ==
  [][\A d \in Desc :
       (PendingCallBy(d) \/ OtherLockCallBy(d)) => osType'[d] # 0]_vars

\* C18, amended: the query has completed when d issues any host lock call
\* other than the LockFile on PENDING_BYTE.
CacheWarmBeforeOtherLocks ==
  [][\A d \in Desc : OtherLockCallBy(d) => osType'[d] # 0]_vars

\* A descriptor that called lock(EXCLUSIVE) at NONE is about to issue the
\* LockFile on the pool, which makes no query itself, and the query is done.
PoolLockAfterQuery ==
  \E d \in Desc : pc[d] = "exLock" /\ locktype[d] = NO_LOCK /\ osType[d] # 0

\* C19: a lock call makes at most 4 attempts on PENDING_BYTE and stops at the
\* first that succeeds; a failed attempt takes no lock and, unless it is the
\* fourth, is followed by another; after the fourth the call returns BUSY
\* with locktype as it was.  The loop therefore ends after at most 4 steps of
\* the caller, whoever holds PENDING_BYTE.
PendingPreLockBounded ==
  [][\A d \in Desc :
       PendingCallBy(d)
         => /\ cnt[d] \in 1..4
            /\ IF BagIn(Lk(d, PENDING_BYTE, 1, TRUE), locks')
                    /\ ~BagIn(Lk(d, PENDING_BYTE, 1, TRUE), locks)
                 THEN pc'[d] # "pending"
                 ELSE /\ locks' = locks
                      /\ cnt[d] > 1 => (pc'[d] = "pending" /\ cnt'[d] = cnt[d] - 1)
                      /\ cnt[d] = 1
                           => (/\ pc'[d] = "idle" /\ ev'.op = "lock" /\ ev'.d = d
                               /\ ev'.rc = "BUSY"
                               /\ locktype'[d] = locktype[d])]_vars

\* lock(SHARED) has returned BUSY to a descriptor that holds nothing while
\* another descriptor holds PENDING_BYTE: its four attempts have failed.
PendingTriesExhausted ==
  /\ ev.op = "lock" /\ ev.tgt = SHARED_LOCK /\ ev.from = NO_LOCK /\ ev.rc = "BUSY"
  /\ cnt[ev.d] = 0 /\ HeldBy(locks, ev.d) = {}
  /\ \E e \in Desc \ {ev.d} : BagIn(Lk(e, PENDING_BYTE, 1, TRUE), locks)

\* C20: after every completed lock, unlock or check_reserved call, whatever
\* it returned, the caller holds in the host's lock table exactly the locks
\* its locktype accounts for, once each.
HeldMatchesLocktype ==
  ev.op \in {"lock", "unlock", "check"}
    => /\ HeldBy(locks, ev.d) = MayHold(ev.d, locktype[ev.d])
       /\ \A l \in HeldBy(locks, ev.d) : locks[l] = 1

====
